---- MODULE Spec2Model ----
(***************************************************************************)
(* A model of tuckr.py: the helper that reads `tuckr status --json`, links *)
(* the unlinked groups and resolves conflicts by renaming the conflicting  *)
(* project folder to a backup name and re-linking.                         *)
(*                                                                         *)
(* The external tool (`tuckr status <g> --json`, `tuckr add <g>`) and the  *)
(* operating system's rename are the environment: every call is one step   *)
(* whose outcome is drawn from the outcomes the call can have.             *)
(***************************************************************************)
EXTENDS Integers, Sequences, FiniteSets, TLC

VARIABLES
    pc,               \* position of the process in main / process_conflicts
    exit_code,        \* process exit status: "none" while running, else "0" or "1"
    json_input,       \* what main reads from stdin
    exclude_groups,   \* args.exclude
    idx,              \* position of the for loop of _process_not_symlinked_groups
    detailed_status,  \* local of _handle_single_unlinked_group / _attempt_conflict_resolution
    retry_count,      \* local of _attempt_conflict_resolution
    project_folder,   \* result of the last _find_project_folder call
    stats,            \* Stats.data
    fs,               \* the filesystem: kind of every path the run can touch
    summary_logged,   \* Stats.log_summary has run
    grp,              \* history of the group being processed
    hist              \* history of the whole run

vars == <<pc, exit_code, json_input, exclude_groups, idx, detailed_status,
          retry_count, project_folder, stats, fs, summary_logged, grp, hist>>

----------------------------------------------------------------------------
(* Bounds of the model *)

\* longest not_symlinked list of the input document
MaxGroups == 2
\* most groups of that list that are not excluded
MaxActive == 1
\* longest conflict list a status document reports for a group
MaxConf == 2

----------------------------------------------------------------------------
(* Paths.  A path string is its absolute flag and its components:          *)
(* "/" is [abs TRUE, <<>>], "" is [abs FALSE, <<>>], "a/b" is              *)
(* [abs FALSE, <<"a","b">>].                                               *)

AbsPath(cs) == [abs |-> TRUE, comps |-> cs]
RelPath(cs) == [abs |-> FALSE, comps |-> cs]

Root == AbsPath(<<>>)
EmptyPath == RelPath(<<>>)

\* os.path.dirname: everything before the last slash; "/" and "" are fixed points
dirname(p) ==
    IF p.comps = <<>> THEN p
    ELSE [p EXCEPT !.comps = SubSeq(p.comps, 1, Len(p.comps) - 1)]

\* os.path.basename: everything after the last slash
basename(p) == IF p.comps = <<>> THEN "" ELSE p.comps[Len(p.comps)]

\* f"{original_path}-{backup_suffix}"
BackupPath(original_path, backup_suffix) ==
    IF original_path.comps = <<>>
    THEN [original_path EXCEPT !.comps = <<"-" \o backup_suffix>>]
    ELSE [original_path EXCEPT
            !.comps[Len(original_path.comps)] = @ \o "-" \o backup_suffix]

\* p is q or lies below q
IsUnder(p, q) ==
    /\ p.abs = q.abs
    /\ Len(p.comps) >= Len(q.comps)
    /\ SubSeq(p.comps, 1, Len(q.comps)) = q.comps

----------------------------------------------------------------------------
(* The world of one run *)

Groups == {"nvim", "u"}

\* args.suffix (its default)
backup_suffix == "backup"

HomeDir == AbsPath(<<"home", "u">>)
HomeParent == AbsPath(<<"home">>)
CfgNvim == AbsPath(<<"home", "u", ".config", "nvim">>)
LocalNvim == AbsPath(<<"home", "u", ".local", "nvim">>)
CfgInit == AbsPath(<<"home", "u", ".config", "nvim", "init.lua">>)
LocalSite == AbsPath(<<"home", "u", ".local", "nvim", "site.vim">>)
Zshrc == AbsPath(<<"home", "u", ".zshrc">>)
EtcFoo == AbsPath(<<"etc", "xdg", "foo">>)

\* the home directory and the directories above it
HomeOrAbove == {HomeDir, HomeParent, Root}

Folders == {HomeDir, CfgNvim, LocalNvim}
Files == {Zshrc, EtcFoo}
FsPaths == Folders \cup {BackupPath(f, backup_suffix) : f \in Folders} \cup Files

\* target_path values the external tool reports
Targets == {CfgInit, LocalSite, Zshrc, EtcFoo, EmptyPath}

\* a conflict entry; has_target FALSE is an entry with no "target_path" key
Entry(t) == [has_target |-> TRUE, target_path |-> t]
NoTargetEntry == [has_target |-> FALSE, target_path |-> EmptyPath]
Entries == {Entry(t) : t \in Targets} \cup {NoTargetEntry}

RECURSIVE SeqsUpTo(_, _)
SeqsUpTo(S, n) ==
    IF n = 0 THEN {<<>>}
    ELSE LET shorter == SeqsUpTo(S, n - 1)
         IN  shorter \cup {Append(s, x) : s \in shorter, x \in S}

NoDup(s) == \A i, j \in 1..Len(s) : i # j => s[i] # s[j]

----------------------------------------------------------------------------
(* Stats *)

StatKeys == {"symlinked_printed", "not_symlinked_processed", "conflicts_processed",
             "renamed_folders", "renamed_files", "added_groups",
             "unsupported_printed", "non_existent_printed", "skipped_excluded",
             "errors", "warnings"}

\* Stats.__init__
NewStats == [k \in StatKeys |-> 0]

\* Stats.increment: an unknown key only logs a warning
increment(s, key, value) ==
    IF key \in DOMAIN s THEN [s EXCEPT ![key] = @ + value] ELSE s

\* _log_and_count_error
LogAndCountError(s) == increment(s, "errors", 1)

\* the "total groups processed" figure of Stats.log_summary
SummaryTotalProcessed(s) == s["not_symlinked_processed"] + s["conflicts_processed"]

----------------------------------------------------------------------------
(* `tuckr status <group> --json`: the outcomes of one call *)

None == [kind |-> "none", conflicts |-> <<>>]

ConflictLists == SeqsUpTo(Entries, MaxConf)

\* not_found: FileNotFoundError; perm: another OSError of the spawn;
\* no_output: empty stdout; bad_json: stdout that does not decode;
\* empty_doc: the document {}; nonobject: a non-empty JSON value that is no
\* object; object: a non-empty object, conflicts being its list for the group
\* (empty when it has no "conflicts" key or no entry for the group)
StatusOutcomes ==
    {[kind |-> k, conflicts |-> <<>>] :
        k \in {"not_found", "perm", "no_output", "bad_json", "empty_doc", "nonobject"}}
    \cup {[kind |-> "object", conflicts |-> c] : c \in ConflictLists}

\* _get_detailed_group_status: the exception it lets through
StatusRaises(o) == o.kind = "perm"

\* _get_detailed_group_status: the value it returns
StatusValue(o) ==
    IF o.kind \in {"not_found", "no_output", "bad_json"} THEN None ELSE o

\* _get_detailed_group_status: the counters after it
StatusStats(o, s) ==
    CASE o.kind = "no_output" -> increment(s, "warnings", 1)
      [] o.kind \in {"bad_json", "not_found"} -> LogAndCountError(s)
      [] OTHER -> s

\* `not detailed_status`: None and the empty document are falsy
Falsy(d) == d.kind \in {"none", "empty_doc"}

\* detailed_status.get(...) raises AttributeError on a value that is no object
GetRaises(d) == d.kind = "nonobject"

\* a lookup under a key the document never has: no conflicts are ever seen
GroupConflictsWrongKey(d) == <<>>

\* detailed_status.get("conflicts", {}).get(group, [])
GroupConflicts(d) == d.conflicts

----------------------------------------------------------------------------
(* _find_project_folder *)

NoFolder == [r |-> "none", path |-> EmptyPath]
FolderAt(p) == [r |-> "folder", path |-> p]

\* the while loop: it ends at "/" or at a match; at a fixed point of dirname
\* other than "/" (the empty string) it never ends
RECURSIVE WalkUp(_, _)
WalkUp(group, p) ==
    IF p = Root THEN NoFolder
    ELSE IF basename(p) = group THEN FolderAt(p)
    ELSE IF dirname(p) = p THEN [r |-> "diverges", path |-> p]
    ELSE WalkUp(group, dirname(p))

\* a walk that starts at the target itself instead of its parent
FindProjectFolderFromTarget(group, conflict_list) ==
    IF ~conflict_list[1].has_target THEN [r |-> "keyerror", path |-> EmptyPath]
    ELSE WalkUp(group, conflict_list[1].target_path)

FindProjectFolder(group, conflict_list) ==
    IF ~conflict_list[1].has_target THEN [r |-> "keyerror", path |-> EmptyPath]
    ELSE WalkUp(group, dirname(conflict_list[1].target_path))

----------------------------------------------------------------------------
(* os.rename *)

FsKinds == {"absent", "file", "emptydir", "dir"}

\* whether the operating system can carry out rename(src, dst): the source
\* exists, and the destination is absent, or an empty directory that a
\* directory replaces, or a file that a file replaces
RenamePossible(f, src, dst) ==
    /\ f[src] # "absent"
    /\ \/ f[dst] = "absent"
       \/ f[src] \in {"emptydir", "dir"} /\ f[dst] = "emptydir"
       \/ f[src] = "file" /\ f[dst] = "file"

\* the filesystem after a successful rename: the source and all below it
\* are gone from their old place
Renamed(f, src, dst) ==
    [p \in DOMAIN f |->
        IF p = dst THEN f[src]
        ELSE IF IsUnder(p, src) THEN "absent"
        ELSE f[p]]

\* `tuckr add <group>`: exit 0, non-zero exit (CalledProcessError),
\* FileNotFoundError, another OSError of the spawn
AddOutcomes == {"ok", "failed", "not_found", "perm"}

\* a linker that counts every non-zero exit, whatever the mode
RunTuckrAddStatsModeBlind(o, s, is_conflict_resolution) ==
    CASE o = "ok" -> increment(s, "added_groups", 1)
      [] o \in {"failed", "not_found"} -> LogAndCountError(s)
      [] OTHER -> s

\* _run_tuckr_add: the counters after it
RunTuckrAddStats(o, s, is_conflict_resolution) ==
    CASE o = "ok" -> increment(s, "added_groups", 1)
      [] o = "failed" -> IF is_conflict_resolution THEN s ELSE LogAndCountError(s)
      [] o = "not_found" -> LogAndCountError(s)
      [] OTHER -> s

----------------------------------------------------------------------------
(* Inputs of a run *)

EmptyInput(k) ==
    [kind |-> k, not_symlinked |-> <<>>, conflicts |-> {}, symlinked |-> <<>>,
     unsupported |-> <<>>, nonexistent |-> <<>>, non_existent |-> <<>>]

\* the parts of the input document the run only reports or never reads:
\* the keys of its "conflicts" mapping and its other lists
ReportedParts ==
    {[conflicts |-> {}, symlinked |-> <<>>, unsupported |-> <<>>,
      nonexistent |-> <<>>, non_existent |-> <<>>],
     [conflicts |-> Groups, symlinked |-> <<"zsh", "git">>, unsupported |-> <<"win">>,
      nonexistent |-> <<>>, non_existent |-> <<"gone">>]}

\* a document that parses to an object: the tool names each unlinked group once
ObjectInputs ==
    {[kind |-> "object", not_symlinked |-> ns, conflicts |-> r.conflicts,
      symlinked |-> r.symlinked, unsupported |-> r.unsupported,
      nonexistent |-> r.nonexistent, non_existent |-> r.non_existent] :
        ns \in {q \in SeqsUpTo(Groups, MaxGroups) : NoDup(q)},
        r \in ReportedParts}

\* tty: stdin is a terminal; blank: empty or whitespace input; malformed: text
\* that is not JSON; nonobject: JSON that is not an object
OtherInputs == {EmptyInput(k) : k \in {"tty", "blank", "malformed", "nonobject"}}

\* the groups of the list the run does not skip
ActiveGroups(doc, excluded) ==
    {doc.not_symlinked[i] : i \in 1..Len(doc.not_symlinked)} \ excluded

\* the filesystem before the run: the home directory, the reported files and
\* the second project folder exist and their backup names are free; the
\* first project folder exists or has vanished, and its backup name is free
\* or taken by an empty directory or by a directory with content
InitialFs ==
    {f \in [FsPaths -> FsKinds] :
        /\ f[HomeDir] = "dir" /\ f[LocalNvim] = "dir"
        /\ \A p \in Files : f[p] = "file"
        /\ f[CfgNvim] \in {"dir", "absent"}
        /\ f[BackupPath(CfgNvim, backup_suffix)] \in {"absent", "emptydir", "dir"}
        /\ f[BackupPath(HomeDir, backup_suffix)] = "absent"
        /\ f[BackupPath(LocalNvim, backup_suffix)] = "absent"}

DefaultFs ==
    [p \in FsPaths |-> IF p \in Folders THEN "dir"
                       ELSE IF p \in Files THEN "file" ELSE "absent"]

NewGroup(name, s) ==
    [name |-> name, phase |-> "running", stats0 |-> s,
     no_conflicts |-> FALSE, standalone_adds |-> 0, resolution_adds |-> 0,
     rename_attempts |-> 0, renames_ok |-> 0,
     infer_none |-> FALSE, files_present |-> 0,
     dst_existed |-> FALSE, always_conflicted |-> TRUE,
     first_fit |-> FALSE, requery_clean |-> FALSE,
     last_query |-> "none", last_reported |-> <<>>, fresh |-> FALSE,
     last_add |-> "none", rename_failed |-> FALSE]

NoGroup == [NewGroup("", NewStats) EXCEPT !.phase = "idle"]

NewHist ==
    [queried |-> {}, renamed_for |-> {}, added_for |-> {}, rename_srcs |-> {},
     skip_count |-> [g \in Groups |-> 0]]

Init ==
    /\ pc = "main"
    /\ exit_code = "none"
    /\ \/ /\ json_input \in ObjectInputs
          /\ exclude_groups \in SUBSET Groups
          /\ Cardinality(ActiveGroups(json_input, exclude_groups)) <= MaxActive
          /\ fs \in InitialFs
       \/ /\ json_input \in OtherInputs
          /\ exclude_groups = {}
          /\ fs = DefaultFs
    /\ idx = 1
    /\ detailed_status = None
    /\ retry_count = 0
    /\ project_folder = NoFolder
    /\ stats = NewStats
    /\ summary_logged = FALSE
    /\ grp = NoGroup
    /\ hist = NewHist

----------------------------------------------------------------------------
(* The run *)

\* max_retries of _attempt_conflict_resolution
max_retries == 5

\* the loop condition written `<=`: one pass too many
RetryAllowedOffByOne(rc) == rc <= max_retries

\* the condition of `while retry_count < max_retries`
RetryAllowed(rc) == rc < max_retries

\* an exclusion test that never holds
IsExcludedNever(group) == FALSE

\* `group in exclude_groups`
IsExcluded(group) == group \in exclude_groups

CurrentGroup == json_input.not_symlinked[idx]

\* an exception nothing catches ends the process: a traceback, exit status 1
Crash(g, h) ==
    /\ pc' = "crashed"
    /\ exit_code' = "1"
    /\ grp' = g
    /\ hist' = h
    /\ UNCHANGED <<json_input, exclude_groups, idx, detailed_status, retry_count,
                   project_folder, stats, fs, summary_logged>>

\* the handling of the current group returns to the for loop of
\* _process_not_symlinked_groups; the locals of the returning functions are gone
Return(g, h, s) ==
    /\ pc' = "groups"
    /\ idx' = idx + 1
    /\ grp' = [g EXCEPT !.phase = "finished", !.last_reported = <<>>,
                        !.fresh = FALSE, !.rename_failed = FALSE]
    /\ hist' = h
    /\ stats' = s
    /\ detailed_status' = None
    /\ retry_count' = 0
    /\ project_folder' = NoFolder
    /\ UNCHANGED <<exit_code, json_input, exclude_groups, fs, summary_logged>>

\* main: the checks before process_conflicts
Main ==
    /\ pc = "main"
    /\ IF json_input.kind \in {"tty", "blank"}
       THEN pc' = "exit" /\ exit_code' = "1"
       ELSE pc' = "process" /\ exit_code' = exit_code
    /\ UNCHANGED <<json_input, exclude_groups, idx, detailed_status, retry_count,
                   project_folder, stats, fs, summary_logged, grp, hist>>

\* process_conflicts up to the loop over the unlinked groups: json.loads,
\* status_data.keys(), _process_symlinked_groups
ProcessConflicts ==
    /\ pc = "process"
    /\ CASE json_input.kind = "malformed" ->
              /\ stats' = LogAndCountError(stats)
              /\ summary_logged' = TRUE
              /\ pc' = "exit"
              /\ exit_code' = "0"
         [] json_input.kind = "nonobject" ->
              /\ pc' = "crashed"
              /\ exit_code' = "1"
              /\ UNCHANGED <<stats, summary_logged>>
         [] OTHER ->
              /\ stats' = IF json_input.symlinked # <<>>
                          THEN increment(stats, "symlinked_printed",
                                         Len(json_input.symlinked))
                          ELSE stats
              /\ pc' = "groups"
              /\ UNCHANGED <<exit_code, summary_logged>>
    /\ UNCHANGED <<json_input, exclude_groups, idx, detailed_status, retry_count,
                   project_folder, fs, grp, hist>>

\* _process_not_symlinked_groups: an excluded group is skipped
SkipExcluded ==
    /\ pc = "groups"
    /\ idx <= Len(json_input.not_symlinked)
    /\ IsExcluded(CurrentGroup)
    /\ stats' = increment(stats, "skipped_excluded", 1)
    /\ hist' = [hist EXCEPT !.skip_count[CurrentGroup] = @ + 1]
    /\ idx' = idx + 1
    /\ UNCHANGED <<pc, exit_code, json_input, exclude_groups, detailed_status,
                   retry_count, project_folder, fs, summary_logged, grp>>

\* _process_not_symlinked_groups: the next group goes to
\* _handle_single_unlinked_group
StartGroup ==
    /\ pc = "groups"
    /\ idx <= Len(json_input.not_symlinked)
    /\ ~IsExcluded(CurrentGroup)
    /\ pc' = "hs_status"
    /\ grp' = NewGroup(CurrentGroup, stats)
    /\ UNCHANGED <<exit_code, json_input, exclude_groups, idx, detailed_status,
                   retry_count, project_folder, stats, fs, summary_logged, hist>>

\* status_data.get("nonexistent", []) or status_data.get("non_existent", [])
NonExistentGroups(doc) ==
    IF doc.nonexistent # <<>> THEN doc.nonexistent ELSE doc.non_existent

\* process_conflicts after the loop: _process_unsupported_groups,
\* _process_non_existent_groups, log_summary; main then ends
FinishRun ==
    /\ pc = "groups"
    /\ idx > Len(json_input.not_symlinked)
    /\ stats' = increment(increment(stats, "unsupported_printed",
                                    Len(json_input.unsupported)),
                          "non_existent_printed",
                          Len(NonExistentGroups(json_input)))
    /\ summary_logged' = TRUE
    /\ pc' = "exit"
    /\ exit_code' = "0"
    /\ UNCHANGED <<json_input, exclude_groups, idx, detailed_status, retry_count,
                   project_folder, fs, grp, hist>>

\* a status query reports no conflicts for the group
ReportsNoConflicts(o) ==
    o.kind = "empty_doc" \/ (o.kind = "object" /\ o.conflicts = <<>>)

\* a status query reports conflicts for the group
ReportsConflicts(o) == o.kind = "object" /\ o.conflicts # <<>>

\* a status query was issued for the current group
Queried == [hist EXCEPT !.queried = @ \cup {grp.name}]

\* what a status query told about the group: a document without conflicts
\* for it, a document with conflicts for it, no document at all (the binary
\* is missing, the output is empty or does not decode), or a JSON value that
\* is no object
QueryKind(o) ==
    IF ReportsNoConflicts(o) THEN "clean"
    ELSE IF ReportsConflicts(o) THEN "conflicts"
    ELSE IF o.kind \in {"not_found", "no_output", "bad_json"} THEN "failed"
    ELSE "other"

\* the history of the group after a status query that returned
AfterQuery(g, o) ==
    [g EXCEPT !.last_query = QueryKind(o), !.last_reported = o.conflicts,
              !.fresh = TRUE]

\* a re-query whose result is dropped: the loop keeps its old snapshot
StaleSnapshot(old, new) == IF Falsy(new) THEN new ELSE old

\* `detailed_status = _get_detailed_group_status(group, stats)` in the loop
FreshSnapshot(old, new) == new

\* a failed rename that does not return: the re-link follows in any case
AfterRenameAlwaysAdd(renamed) == "acr_add"

\* _handle_project_folder_backup after os.rename: a failure returns False
\* before _run_tuckr_add, a success goes on to it
AfterRename(renamed) == IF renamed THEN "acr_add" ELSE "acr_restatus"

\* the program goes on inside the handling of the current group
Continue(next_pc, g, h, s, d, rc) ==
    /\ pc' = next_pc
    /\ grp' = g
    /\ hist' = h
    /\ stats' = s
    /\ detailed_status' = d
    /\ retry_count' = rc
    /\ UNCHANGED <<exit_code, json_input, exclude_groups, idx, project_folder, fs,
                   summary_logged>>

\* _handle_single_unlinked_group: the status query and the choice between
\* linking and conflict resolution
HandleSingleStatus ==
    /\ pc = "hs_status"
    /\ \E o \in StatusOutcomes :
          LET d == StatusValue(o)
              s == StatusStats(o, stats)
              g == [AfterQuery(grp, o) EXCEPT !.no_conflicts = ReportsNoConflicts(o)]
          IN  IF StatusRaises(o) THEN Crash(grp, Queried)
              ELSE IF Falsy(d) THEN Return(g, Queried, s)
              ELSE IF GetRaises(d) THEN Crash(g, Queried)
              ELSE Continue(IF GroupConflicts(d) # <<>> THEN "acr_status" ELSE "hs_add",
                            g, Queried, s, d, retry_count)

\* _handle_single_unlinked_group: _run_tuckr_add in standalone mode
HandleSingleAdd ==
    /\ pc = "hs_add"
    /\ \E o \in AddOutcomes :
          LET g == [grp EXCEPT !.standalone_adds = @ + 1, !.last_add = o]
              h == [hist EXCEPT !.added_for = @ \cup {grp.name}]
              s == RunTuckrAddStats(o, stats, FALSE)
          IN  IF o = "perm" THEN Crash(g, h)
              ELSE Return(g, h, IF o = "ok"
                                THEN increment(s, "not_symlinked_processed", 1)
                                ELSE s)

\* _attempt_conflict_resolution: the initial status query
AttemptStatus ==
    /\ pc = "acr_status"
    /\ \E o \in StatusOutcomes :
          LET d == StatusValue(o)
              s == StatusStats(o, stats)
              g == [AfterQuery(grp, o) EXCEPT
                      !.always_conflicted = @ /\ ReportsConflicts(o)]
          IN  IF StatusRaises(o) THEN Crash(grp, Queried)
              ELSE IF Falsy(d) THEN Return(g, Queried, s)
              ELSE Continue("acr_loop", g, Queried, s, d, 0)

\* a path exists: it is there itself, or nothing it lies under is gone
PathExists(f, p) ==
    /\ p # EmptyPath
    /\ IF p \in DOMAIN f THEN f[p] # "absent"
       ELSE \A q \in DOMAIN f : IsUnder(p, q) => f[q] # "absent"

\* the number of conflicting files of a list that exist
FilesPresent(f, conflict_list) ==
    Cardinality({conflict_list[i].target_path :
                    i \in {j \in 1..Len(conflict_list) :
                              /\ conflict_list[j].has_target
                              /\ PathExists(f, conflict_list[j].target_path)}})

\* _handle_project_folder_backup up to the end of the rename, for the folder
\* _find_project_folder returned
RenameStep(src) ==
    LET dst == BackupPath(src, backup_suffix)
        first == grp.rename_attempts = 0
        g == [grp EXCEPT
                !.rename_attempts = @ + 1,
                !.fresh = FALSE,
                !.dst_existed = IF first THEN fs[dst] # "absent" ELSE @,
                !.first_fit = IF first THEN fs[src] = "dir" /\ fs[dst] = "absent"
                              ELSE @]
    IN  /\ hist' = [hist EXCEPT !.renamed_for = @ \cup {grp.name},
                                !.rename_srcs = @ \cup {src}]
        /\ \E renamed \in BOOLEAN :
              /\ renamed => RenamePossible(fs, src, dst)
              /\ IF renamed
                 THEN /\ fs' = Renamed(fs, src, dst)
                      /\ stats' = increment(stats, "renamed_folders", 1)
                      /\ grp' = [g EXCEPT !.renames_ok = @ + 1,
                                           !.rename_failed = FALSE]
                      /\ pc' = AfterRename(TRUE)
                 ELSE /\ fs' = fs
                      /\ stats' = LogAndCountError(stats)
                      /\ grp' = [g EXCEPT !.rename_failed = TRUE]
                      /\ pc' = AfterRename(FALSE)
        /\ UNCHANGED <<exit_code, json_input, exclude_groups, idx, detailed_status,
                       retry_count, summary_logged>>

\* _attempt_conflict_resolution: one pass of the while loop up to the end of
\* the rename, or, with the retries used up, the final check
AttemptLoop ==
    /\ pc = "acr_loop"
    /\ IF GetRaises(detailed_status) THEN Crash(grp, hist)
       ELSE LET group_conflicts == GroupConflicts(detailed_status) IN
            IF group_conflicts = <<>>
            THEN Return(grp, hist, increment(stats, "not_symlinked_processed", 1))
            ELSE IF ~RetryAllowed(retry_count)
            THEN Return(grp, hist, stats)
            ELSE LET found == FindProjectFolder(grp.name, group_conflicts) IN
                 CASE found.r = "keyerror" -> Crash(grp, hist)
                   [] found.r = "diverges" ->
                        /\ pc' = "hang"
                        /\ UNCHANGED <<exit_code, json_input, exclude_groups, idx,
                                       detailed_status, retry_count, project_folder,
                                       stats, fs, summary_logged, grp, hist>>
                   [] found.r = "none" ->
                        Return([grp EXCEPT
                                  !.infer_none = TRUE,
                                  !.files_present = FilesPresent(fs, group_conflicts)],
                               hist, increment(stats, "warnings", 1))
                   [] OTHER ->
                        /\ project_folder' = found
                        /\ RenameStep(found.path)

\* _handle_project_folder_backup: _run_tuckr_add in conflict-resolution mode
AttemptAdd ==
    /\ pc = "acr_add"
    /\ \E o \in AddOutcomes :
          LET g == [grp EXCEPT !.resolution_adds = @ + 1, !.last_add = o]
              h == [hist EXCEPT !.added_for = @ \cup {grp.name}]
          IN  IF o = "perm" THEN Crash(g, h)
              ELSE Continue("acr_restatus", g, h, RunTuckrAddStats(o, stats, TRUE),
                            detailed_status, retry_count)

\* _attempt_conflict_resolution: the status query that ends a pass of the loop
AttemptRestatus ==
    /\ pc = "acr_restatus"
    /\ \E o \in StatusOutcomes :
          LET d == FreshSnapshot(detailed_status, StatusValue(o))
              s == StatusStats(o, stats)
              g == [AfterQuery(grp, o) EXCEPT
                      !.last_add = "none",
                      !.always_conflicted = @ /\ ReportsConflicts(o),
                      !.requery_clean =
                          IF retry_count = 0 THEN ReportsNoConflicts(o) ELSE @]
          IN  IF StatusRaises(o) THEN Crash(grp, Queried)
              ELSE IF Falsy(d) THEN Return(g, Queried, s)
              ELSE Continue("acr_loop", g, Queried, s, d, retry_count + 1)

Next ==
    \/ Main
    \/ ProcessConflicts
    \/ SkipExcluded
    \/ StartGroup
    \/ FinishRun
    \/ HandleSingleStatus
    \/ HandleSingleAdd
    \/ AttemptStatus
    \/ AttemptLoop
    \/ AttemptAdd
    \/ AttemptRestatus

Spec == Init /\ [][Next]_vars

----------------------------------------------------------------------------
(* Properties *)

Finished == grp.phase = "finished"

\* what the counter `key` gained while the current group was handled
Gained(key) == stats[key] - grp.stats0[key]

\* C1: one call of _attempt_conflict_resolution issues at most 5 rename
\* attempts, successful or failed, and at most 5 `tuckr add` invocations in
\* conflict-resolution mode, whatever the tool and the filesystem do.
C1_AtMostFiveRelocations ==
    grp.rename_attempts <= 5 /\ grp.resolution_adds <= 5

\* C1, reached: a group ends after five rename attempts, failed and
\* successful ones among them, with a re-link after a successful one.
C1_FiveAttemptsReached ==
    /\ Finished
    /\ grp.rename_attempts = 5
    /\ grp.renames_ok >= 1
    /\ grp.resolution_adds >= 1

\* C2: a group whose status query reports no conflicts for it (a document
\* with no conflicts for the group, the empty document included) is never
\* renamed for and `tuckr add` runs for it exactly once, in standalone mode.
C2_NoConflictsLinkedOnce ==
    (Finished /\ grp.no_conflicts) =>
        (grp.rename_attempts = 0 /\ grp.standalone_adds = 1)

\* C3: when folder inference returns None for a group with conflicts, every
\* conflicting file that exists is renamed and counted in renamed_files (two
\* existing files give renamed_files == 2).
C3_FilesRelocatedIndividually ==
    (Finished /\ grp.infer_none) => Gained("renamed_files") = grp.files_present

\* C4: when the inferred folder exists, its backup name is free and the
\* re-query after the rename reports no conflicts, there is exactly one
\* rename, renamed_folders grows by exactly 1 and the group is counted once
\* as processed.
C4_FolderRelocatedAndResolved ==
    (Finished /\ grp.first_fit /\ grp.requery_clean) =>
        /\ grp.rename_attempts = 1
        /\ Gained("renamed_folders") = 1
        /\ Gained("not_symlinked_processed") = 1

\* C5: when the backup name of the inferred folder is already taken and the
\* conflict keeps being reported, the folder is never renamed, the group
\* ends unresolved and errors ends exactly one higher than it began.
C5_TakenDestinationOneError ==
    (Finished /\ grp.dst_existed /\ grp.always_conflicted) =>
        /\ grp.renames_ok = 0
        /\ Gained("not_symlinked_processed") = 0
        /\ Gained("errors") = 1

\* C6: no counter is ever negative, and once a group's handling has ended
\* added_groups is at most the summary's total of processed groups.
C6_LinkedAtMostProcessed ==
    /\ \A k \in StatKeys : stats[k] >= 0
    /\ grp.phase # "running" => stats["added_groups"] <= SummaryTotalProcessed(stats)

\* the groups of the input's not_symlinked list
Listed == {json_input.not_symlinked[i] : i \in 1..Len(json_input.not_symlinked)}

\* the for loop has gone past the group
Passed(group) ==
    \E i \in 1..Len(json_input.not_symlinked) :
        json_input.not_symlinked[i] = group /\ i < idx

NeverTouched(group) ==
    group \notin (hist.queried \cup hist.renamed_for \cup hist.added_for)

C8_NeverHomeOrAbove ==
    /\ project_folder.r = "folder" => project_folder.path \notin HomeOrAbove
    /\ hist.rename_srcs \cap HomeOrAbove = {}

\* C9: for every input that is valid JSON no exception escapes and the
\* loop over the groups never hangs: process_conflicts ends in log_summary.
C9_NothingThrowsSummaryLogged ==
    /\ pc \notin {"crashed", "hang"}
    /\ (pc = "exit" /\ json_input.kind \notin {"tty", "blank"}) => summary_logged

\* C10: a malformed document ends the run with a non-zero exit status and
\* without a status query, rename or add; a run whose input parsed exits 0.
C10_ExitStatusFollowsParse ==
    exit_code # "none" =>
        /\ json_input.kind = "malformed" =>
              /\ exit_code # "0"
              /\ hist.queried \cup hist.renamed_for \cup hist.added_for = {}
        /\ json_input.kind \in {"object", "nonobject"} => exit_code = "0"

\* C11: a group whose every status query reported conflicts and whose loop
\* made its 5 relocation attempts ends not counted as processed, with the
\* warnings counter higher than when its handling began.
C11_ExhaustedCountsWarning ==
    (Finished /\ grp.always_conflicted /\ grp.rename_attempts = max_retries) =>
        /\ Gained("not_symlinked_processed") = 0
        /\ Gained("warnings") >= 1

\* the step is a status query of _attempt_conflict_resolution that returned
QueryStep ==
    /\ pc \in {"acr_status", "acr_restatus"}
    /\ pc' # "crashed"

\* C12: a status query of the resolution loop that yields no document (empty
\* output, undecodable output, missing binary) ends the handling of the
\* group, so that no rename or add follows for it, adds one to warnings,
\* leaves errors alone and does not count the group as processed.
C12_FailedQueryIsWarning ==
    [][(QueryStep /\ grp'.last_query = "failed") =>
          /\ grp'.phase = "finished"
          /\ stats'["warnings"] = stats["warnings"] + 1
          /\ stats'["errors"] = stats["errors"]
          /\ stats'["not_symlinked_processed"] = stats["not_symlinked_processed"]]_vars

\* the step is a `tuckr add` for the current group
AddStep == pc \in {"hs_add", "acr_add"}

\* C13: a `tuckr add` that exits non-zero adds one to errors in standalone
\* mode and nothing in conflict-resolution mode; a missing binary adds one to
\* errors in both modes; neither adds to added_groups.
C13_LinkerFailureCounted ==
    [][AddStep =>
          /\ grp'.last_add = "failed" =>
                /\ stats'["errors"] = stats["errors"] + (IF pc = "hs_add" THEN 1 ELSE 0)
                /\ stats'["added_groups"] = stats["added_groups"]
          /\ grp'.last_add = "not_found" =>
                /\ stats'["errors"] = stats["errors"] + 1
                /\ stats'["added_groups"] = stats["added_groups"]]_vars

\* C13, reached: in conflict-resolution mode the linker has exited non-zero
\* after an earlier pass lost it for want of the binary, and the errors
\* counter shows the one error of the missing binary only.
C13_BothFailuresInResolution ==
    /\ pc = "acr_restatus"
    /\ grp.last_add = "failed"
    /\ grp.resolution_adds = 2
    /\ Gained("errors") = 1
    /\ Gained("added_groups") = 0

\* the step is a rename attempt of the resolution loop
RenameAttempt == grp'.rename_attempts = grp.rename_attempts + 1

\* every entry of a conflict list names an absolute target path
AbsoluteTargets(conflict_list) ==
    \A i \in 1..Len(conflict_list) :
        conflict_list[i].has_target /\ conflict_list[i].target_path.abs

\* C14: a rename that fails adds one to errors and is followed by the status
\* re-query; and when, after a failed rename, the loop holds a fresh snapshot
\* with conflicts (entries with absolute target paths) and retries are left,
\* its next step is a further relocation attempt made from that snapshot.
C14_FailedRenameLoopGoesOn ==
    [][/\ (RenameAttempt /\ grp'.rename_failed) =>
              /\ stats'["errors"] = stats["errors"] + 1
              /\ pc' = "acr_restatus"
       /\ (/\ pc = "acr_loop"
           /\ grp.rename_failed
           /\ grp.last_query = "conflicts"
           /\ AbsoluteTargets(grp.last_reported)
           /\ RetryAllowed(retry_count)) =>
              /\ RenameAttempt
              /\ project_folder' = FindProjectFolder(grp.name, grp.last_reported)]_vars

\* C15: `tuckr add` in conflict-resolution mode runs once after every
\* successful rename and never otherwise: the adds of a group are its
\* successful renames, less the one whose add is the pending step.
C15_RelinkOnlyAfterRename ==
    grp.resolution_adds = grp.renames_ok - (IF pc = "acr_add" THEN 1 ELSE 0)

\* C15, reached: a group has ended after three rename attempts of which one
\* succeeded, with one re-link.
C15_FailedRenamesSkippedRelink ==
    /\ Finished
    /\ grp.rename_attempts = 3
    /\ grp.renames_ok = 1
    /\ grp.resolution_adds = 1

\* C16: every rename attempt follows a status query made since the attempt
\* before it, and its folder is the one inferred from the conflict list of
\* that most recent query.
C16_AttemptFromLatestSnapshot ==
    [][RenameAttempt =>
          /\ grp.fresh
          /\ grp.last_reported # <<>>
          /\ project_folder' = FindProjectFolder(grp.name, grp.last_reported)]_vars

\* C16, reached: two rename attempts of one group went for different
\* folders, the second being the one a later snapshot reported.
C16_SecondAttemptElsewhere ==
    /\ grp.rename_attempts = 2
    /\ hist.rename_srcs = {CfgNvim, LocalNvim}
    /\ project_folder = FolderAt(LocalNvim)

\* C19: not_symlinked_processed gains at most one while a group is handled,
\* and gains it only when the most recent status query for the group
\* reported no conflicts and, if the group was linked in standalone mode,
\* that `tuckr add` had succeeded.
C19_ProcessedOnEvidenceOnce ==
    /\ Gained("not_symlinked_processed") \in {0, 1}
    /\ Gained("not_symlinked_processed") = 1 =>
          /\ grp.last_query = "clean"
          /\ grp.standalone_adds = 1 => grp.last_add = "ok"

\* C19, reached: a group is counted as processed after a relocation, its
\* last status query having reported no conflicts.
C19_ResolvedAfterRelocation ==
    /\ Finished
    /\ Gained("not_symlinked_processed") = 1
    /\ grp.renames_ok = 1
    /\ grp.standalone_adds = 0
    /\ grp.last_query = "clean"

----------------------------------------------------------------------------
(* _find_project_folder on its own: one call for a group name and a        *)
(* conflict list whose first target path is any path string of bounded     *)
(* depth, absolute or relative                                             *)

\* longest target path of the first entry, in components
MaxDepth == 4

\* names of path components: the group names and one that is no group
InferNames == Groups \cup {"x"}

InferPaths ==
    {[abs |-> a, comps |-> cs] : a \in BOOLEAN, cs \in SeqsUpTo(InferNames, MaxDepth)}

\* conflict lists: a first entry and the entries after it
InferLists ==
    {<<Entry(first)>> \o rest :
        first \in InferPaths,
        rest \in SeqsUpTo({Entry(t) : t \in Targets}, MaxConf - 1)}

InferInit ==
    /\ pc = "infer"
    /\ exit_code = "none"
    /\ \E group \in Groups :
          /\ json_input = [EmptyInput("object") EXCEPT !.not_symlinked = <<group>>]
          /\ grp = NewGroup(group, NewStats)
    /\ \E conflict_list \in InferLists :
          detailed_status = [kind |-> "object", conflicts |-> conflict_list]
    /\ exclude_groups = {}
    /\ idx = 1
    /\ retry_count = 0
    /\ project_folder = NoFolder
    /\ stats = NewStats
    /\ fs = DefaultFs
    /\ summary_logged = FALSE
    /\ hist = NewHist

\* the call: it returns a folder or None, or its loop never ends
InferCall ==
    /\ pc = "infer"
    /\ LET found == FindProjectFolder(grp.name, GroupConflicts(detailed_status))
       IN  IF found.r = "diverges"
           THEN pc' = "hang" /\ project_folder' = project_folder
           ELSE pc' = "infer_done" /\ project_folder' = found
    /\ UNCHANGED <<exit_code, json_input, exclude_groups, idx, detailed_status,
                   retry_count, stats, fs, summary_logged, grp, hist>>

InferNext == InferCall

InferSpec == InferInit /\ [][InferNext]_vars

\* the places of the group name among the components of a path
NamedAt(group, p) == {n \in 1..Len(p.comps) : p.comps[n] = group}

\* the ancestor of p, or p itself, that its first n components make
Prefix(p, n) == [p EXCEPT !.comps = SubSeq(p.comps, 1, n)]

\* C17: for a conflict list of absolute target paths the call returns, and
\* what it returns is the deepest directory, from the parent of the first
\* entry's target upwards, whose last component is the group name, or None
\* when there is none; the entries after the first change nothing, and a
\* returned folder's base name is the group name.
C17_NearestNamedAncestor ==
    LET conflict_list == detailed_status.conflicts
        parent == dirname(conflict_list[1].target_path)
        named == NamedAt(grp.name, parent)
        deepest == CHOOSE n \in named : \A m \in named : m <= n
    IN  (pc # "infer" /\ AbsoluteTargets(conflict_list)) =>
            /\ pc = "infer_done"
            /\ project_folder = IF named = {} THEN NoFolder
                                ELSE FolderAt(Prefix(parent, deepest))
            /\ project_folder = FindProjectFolder(grp.name, <<conflict_list[1]>>)
            /\ project_folder.r = "folder" => basename(project_folder.path) = grp.name

\* C17, reached: the group name occurs twice above the first target and the
\* deeper directory is returned, a second entry under another folder being
\* ignored.
C17_DeeperOfTwoReturned ==
    /\ pc = "infer_done"
    /\ grp.name = "nvim"
    /\ detailed_status.conflicts =
          <<Entry(AbsPath(<<"nvim", "x", "nvim", "x">>)), Entry(LocalSite)>>
    /\ project_folder = FolderAt(AbsPath(<<"nvim", "x", "nvim">>))

\* C18: the call returns for every target path, relative paths and the
\* empty string included.
C18_InferenceReturns == pc # "hang"

====
